---- MODULE Spec2Model ----
(***************************************************************************)
(* Results normalization, metrics calculation and ranking of the           *)
(* MedAgentBench / PharmAgent leaderboard.                                 *)
(*                                                                         *)
(* JSON objects (Python dicts) are functions from key strings to values;   *)
(* a key that is absent from the dict is absent from the DOMAIN.           *)
(* Python floats are exact rationals <<n, d>> in lowest terms with d > 0,  *)
(* Python ints are integers, and a Python str that is compared with < or > *)
(* (a timestamp) is the sequence of its characters' code points.           *)
(* A call returns [err |-> "none", val |-> v], or [err |-> e] with the     *)
(* name of the exception it raises (SystemExit for sys.exit).              *)
(***************************************************************************)
EXTENDS Integers, Sequences, FiniteSets, TLC

VARIABLES
    op,           \* the operation called last
    arg,          \* its arguments, as they were when it was called
    arg_after,    \* the objects passed as its arguments, as they are when it returns
    ret,          \* what it returned or raised
    submissions   \* the Submissions handed to the Ranking Engine, in order

vars == <<op, arg, arg_after, ret, submissions>>

-----------------------------------------------------------------------------
(* Bounds of the model *)

MaxCount == 3      \* counts (total_tasks, correct_count, ...) range over -1..MaxCount
MaxSubs == 2       \* Submissions handed to the Ranking Engine
MaxRecords == 2    \* Result Records over all those Submissions

-----------------------------------------------------------------------------
(* Python values *)

Abs(n) == IF n < 0 THEN 0 - n ELSE n

RECURSIVE GCD(_, _)
GCD(a, b) == IF b = 0 THEN a ELSE GCD(b, a % b)

\* the float n / d (d # 0), in lowest terms with a positive denominator
Rat(n, d) ==
    LET g == GCD(Abs(n), Abs(d))
        s == IF d < 0 THEN 0 - 1 ELSE 1
    IN <<(s * n) \div g, (s * d) \div g>>

Zero == Rat(0, 1)
One == Rat(1, 1)

RAdd(a, b) == Rat(a[1] * b[2] + b[1] * a[2], a[2] * b[2])
RNeg(a) == <<0 - a[1], a[2]>>
RSub(a, b) == RAdd(a, RNeg(b))
RLess(a, b) == a[1] * b[2] < b[1] * a[2]
RLeq(a, b) == a[1] * b[2] <= b[1] * a[2]
RDivInt(a, n) == Rat(a[1], a[2] * n)

\* s < t for two Python strings: lexicographic on the code points
RECURSIVE StrLess(_, _)
StrLess(s, t) ==
    IF t = <<>> THEN FALSE
    ELSE IF s = <<>> THEN TRUE
    ELSE IF Head(s) # Head(t) THEN Head(s) < Head(t)
    ELSE StrLess(Tail(s), Tail(t))

\* d.get(k, default)
Get(d, k, default) == IF k \in DOMAIN d THEN d[k] ELSE default

\* a dict fragment: the key k absent, or k with a value of S
Opt(k, S) == {<<>>} \cup {k :> v : v \in S}

\* a Python str whose characters are read (a task_id) is the sequence of its
\* one-character strings; Str gives the literals used
Str_subtask2 == <<"s", "u", "b", "t", "a", "s", "k", "2">>
Str_pokemon == <<"p", "o", "k", "e", "m", "o", "n">>
Str_task == <<"t", "a", "s", "k">>
Str_batch == <<"b", "a", "t", "c", "h">>

UpperChars == <<"A", "B", "C", "D", "E", "F", "G", "H", "I", "J", "K", "L", "M",
                "N", "O", "P", "Q", "R", "S", "T", "U", "V", "W", "X", "Y", "Z">>
LowerChars == <<"a", "b", "c", "d", "e", "f", "g", "h", "i", "j", "k", "l", "m",
                "n", "o", "p", "q", "r", "s", "t", "u", "v", "w", "x", "y", "z">>

\* s.lower()
Lower(s) ==
    [i \in DOMAIN s |->
        IF \E j \in DOMAIN UpperChars : UpperChars[j] = s[i]
        THEN LowerChars[CHOOSE j \in DOMAIN UpperChars : UpperChars[j] = s[i]]
        ELSE s[i]]

\* s.startswith(p)
StartsWith(s, p) == Len(s) >= Len(p) /\ SubSeq(s, 1, Len(p)) = p

\* p in s
Contains(s, p) == \E i \in 1 .. (Len(s) - Len(p) + 1) : SubSeq(s, i, i + Len(p) - 1) = p

\* a or b, for two str values; None is the empty str, as falsy as it
PyOr(a, b) == IF a # "" THEN a ELSE b

\* a or b, for two timestamps
PyOrSeq(a, b) == IF a # <<>> THEN a ELSE b

\* a dict whose member order is read (participants) is the sequence of its
\* <<key, value>> items in document order
Items(k, v) == << <<k, v>> >>
HasItem(items, k) == \E i \in DOMAIN items : items[i][1] = k
ItemGet(items, k) == items[CHOOSE i \in DOMAIN items : items[i][1] = k][2]

\* an optional argument: None, or a value
None == <<>>
Some(v) == <<v>>
\* if x: for an optional dict argument
Truthy(x) == x # None /\ DOMAIN x[1] # {}

Ok(v) == [err |-> "none", val |-> v]
Raise(e) == [err |-> e, val |-> <<>>]

-----------------------------------------------------------------------------
(* Input values *)

Counts == {0 - 1} \cup (0 .. MaxCount)

\* reported rates (pass_rate, accuracy, hallucination_rate, score)
Rates == {Zero, Rat(1, 2), Rat(4, 5), One, Rat(3, 2)}

\* "10" and "2": ordered "10" < "2" as strings, 10 > 2 as numbers
T1 == <<1, 0>>
T2 == <<2>>
Timestamps == {T1, T2}

Participants == {"p1", "p2"}

-----------------------------------------------------------------------------
(* Metrics Calculator: metrics.py *)

\* an accuracy rule without the guard of the division
Subtask1Metrics_NoGuard(results, now) ==
    LET total_tasks == Get(results, "total_tasks", 0)
        correct_tasks == Get(results, "correct_count", Get(results, "correct_tasks", 0))
    IN IF total_tasks = 0 THEN Raise("ZeroDivisionError")
       ELSE Ok([total_tasks |-> total_tasks,
                correct_tasks |-> correct_tasks,
                accuracy |-> Rat(correct_tasks, total_tasks),
                timestamp |-> now])

\* an accuracy rule that divides total by correct
Subtask1Metrics_Inverted(results, now) ==
    LET total_tasks == Get(results, "total_tasks", 0)
        correct_tasks == Get(results, "correct_count", Get(results, "correct_tasks", 0))
        accuracy == IF correct_tasks > 0 THEN Rat(total_tasks, correct_tasks) ELSE Zero
    IN Ok([total_tasks |-> total_tasks,
           correct_tasks |-> correct_tasks,
           accuracy |-> accuracy,
           timestamp |-> now])

\* Subtask1Metrics.calculate; now is datetime.now().isoformat()
Subtask1Metrics_calculate(results, now) ==
    LET total_tasks == Get(results, "total_tasks", 0)
        correct_tasks == Get(results, "correct_count", Get(results, "correct_tasks", 0))
        accuracy == IF total_tasks > 0 THEN Rat(correct_tasks, total_tasks) ELSE Zero
    IN Ok([total_tasks |-> total_tasks,
           correct_tasks |-> correct_tasks,
           accuracy |-> accuracy,
           timestamp |-> now])

\* Subtask2Metrics.calculate
Subtask2Metrics_calculate(results, now) ==
    LET total_cases == Get(results, "total_cases", Get(results, "total_tasks", 0))
        correct_cases == Get(results, "correct_answers", Get(results, "correct_cases", 0))
        accuracy == IF total_cases > 0 THEN Rat(correct_cases, total_cases) ELSE Zero
        hallucination_rate == Get(results, "hallucination_rate", RSub(One, accuracy))
    IN Ok([total_cases |-> total_cases,
           correct_cases |-> correct_cases,
           accuracy |-> accuracy,
           hallucination_rate |-> hallucination_rate,
           timestamp |-> now])

calculate_metrics(results, subtask, now) ==
    IF subtask = "subtask1" THEN
        LET m == Subtask1Metrics_calculate(results, now)
        IN IF m.err # "none" THEN m
           ELSE Ok([subtask |-> "subtask1",
                    total_tasks |-> m.val.total_tasks,
                    correct_tasks |-> m.val.correct_tasks,
                    accuracy |-> m.val.accuracy,
                    timestamp |-> m.val.timestamp])
    ELSE IF subtask = "subtask2" THEN
        LET m == Subtask2Metrics_calculate(results, now)
        IN IF m.err # "none" THEN m
           ELSE Ok([subtask |-> "subtask2",
                    total_tasks |-> m.val.total_cases,
                    correct_tasks |-> m.val.correct_cases,
                    accuracy |-> m.val.accuracy,
                    hallucination_rate |-> m.val.hallucination_rate,
                    timestamp |-> m.val.timestamp])
    ELSE Raise("ValueError")

create_leaderboard_submission(participant_id, subtask1_results, subtask2_results, now1, now2) ==
    LET m1 == IF Truthy(subtask1_results)
              THEN calculate_metrics(subtask1_results[1], "subtask1", now1)
              ELSE Ok(<<>>)
        m2 == IF Truthy(subtask2_results)
              THEN calculate_metrics(subtask2_results[1], "subtask2", now2)
              ELSE Ok(<<>>)
        results == (IF Truthy(subtask1_results) THEN <<m1.val>> ELSE <<>>)
                   \o (IF Truthy(subtask2_results) THEN <<m2.val>> ELSE <<>>)
    IN IF m1.err # "none" THEN m1
       ELSE IF m2.err # "none" THEN m2
       ELSE Ok([participants |-> Items("medical_agent", participant_id),
                results |-> results])

-----------------------------------------------------------------------------
(* Ranking Engine: metrics.py *)

\* a sort key is a tuple of floats <<"float", x>> and strs <<"str", s>>
ItemLess(x, y) == IF x[1] = "float" THEN RLess(x[2], y[2]) ELSE StrLess(x[2], y[2])

\* a < b for two tuples: decided by the first position where they differ
RECURSIVE TupleLess(_, _)
TupleLess(a, b) ==
    IF a = <<>> \/ b = <<>> THEN a = <<>> /\ b # <<>>
    ELSE IF Head(a) # Head(b) THEN ItemLess(Head(a), Head(b))
    ELSE TupleLess(Tail(a), Tail(b))

Reverse(s) == [i \in 1 .. Len(s) |-> s[Len(s) + 1 - i]]

\* the index i put into the indices sorted by key, behind those whose key is
\* not greater
RECURSIVE InsertByKey(_, _, _)
InsertByKey(sorted, i, keys) ==
    IF sorted = <<>> THEN <<i>>
    ELSE IF TupleLess(keys[i], keys[Head(sorted)]) THEN <<i>> \o sorted
    ELSE <<Head(sorted)>> \o InsertByKey(Tail(sorted), i, keys)

\* the indices idx in ascending order of key, equal keys in the order of idx
RECURSIVE StableSort(_, _)
StableSort(idx, keys) ==
    IF idx = <<>> THEN <<>>
    ELSE InsertByKey(StableSort(SubSeq(idx, 1, Len(idx) - 1), keys), idx[Len(idx)], keys)

\* a descending sort that reverses an ascending stable one: equal keys come out
\* in reverse order
SortedReverse_Unstable(keys) ==
    Reverse(StableSort([i \in 1 .. Len(keys) |-> i], keys))

\* a sort that ignores reverse=True
SortedReverse_Ascending(keys) ==
    StableSort([i \in 1 .. Len(keys) |-> i], keys)

\* sorted(xs, key=..., reverse=True), as the indices of xs in their new order:
\* the list is reversed, sorted ascending and stable, and reversed again
SortedReverse(keys) ==
    Reverse(StableSort(Reverse([i \in 1 .. Len(keys) |-> i]), keys))

\* the places <<i, j>> (submission i, result j) of the results of a subtask,
\* in the order the two loops come to them
RECURSIVE Flatten(_, _, _)
Flatten(subs, i, subtask) ==
    IF i > Len(subs) THEN <<>>
    ELSE SelectSeq([j \in 1 .. Len(subs[i].results) |-> <<i, j>>],
                   LAMBDA at : subs[at[1]].results[at[2]].subtask = subtask)
         \o Flatten(subs, i + 1, subtask)

\* whether a subscript of the loops of rank_subtask<n> raises KeyError
RankKeyError(subs, subtask, fields) ==
    \E i \in DOMAIN subs :
        \/ "participants" \notin DOMAIN subs[i]
        \/ ~HasItem(subs[i].participants, "medical_agent")
        \/ "results" \notin DOMAIN subs[i]
        \/ \E j \in DOMAIN subs[i].results :
              \/ "subtask" \notin DOMAIN subs[i].results[j]
              \/ /\ subs[i].results[j].subtask = subtask
                 /\ ~(fields \subseteq DOMAIN subs[i].results[j])

\* a loop that keeps the results of the other subtask
Subtask1Order_OtherSubtask(subs) ==
    LET flat == Flatten(subs, 1, "subtask2")
        keys == [k \in DOMAIN flat |->
                    LET x == subs[flat[k][1]].results[flat[k][2]]
                    IN <<(<<"float", x.accuracy>>), (<<"str", x.timestamp>>)>>]
        order == SortedReverse(keys)
    IN [k \in DOMAIN order |-> flat[order[k]]]

\* the order rank_subtask1 gives the subtask1 results, as places <<i, j>>
Subtask1Order(subs) ==
    LET flat == Flatten(subs, 1, "subtask1")
        keys == [k \in DOMAIN flat |->
                    LET x == subs[flat[k][1]].results[flat[k][2]]
                    IN <<(<<"float", x.accuracy>>), (<<"str", x.timestamp>>)>>]
        order == SortedReverse(keys)
    IN [k \in DOMAIN order |-> flat[order[k]]]

rank_subtask1(subs) ==
    IF RankKeyError(subs, "subtask1",
                    {"accuracy", "correct_tasks", "total_tasks", "timestamp"})
    THEN Raise("KeyError")
    ELSE LET order == Subtask1Order(subs)
         IN Ok([k \in DOMAIN order |->
                   LET result == subs[order[k][1]].results[order[k][2]]
                   IN [participant_id |->
                           ItemGet(subs[order[k][1]].participants, "medical_agent"),
                       accuracy |-> result.accuracy,
                       correct_tasks |-> result.correct_tasks,
                       total_tasks |-> result.total_tasks,
                       timestamp |-> result.timestamp]])

\* a sort key with hallucination_rate in place of -hallucination_rate
Subtask2Order_NoNegation(subs) ==
    LET flat == Flatten(subs, 1, "subtask2")
        keys == [k \in DOMAIN flat |->
                    LET x == subs[flat[k][1]].results[flat[k][2]]
                    IN <<(<<"float", x.accuracy>>),
                         (<<"float", x.hallucination_rate>>),
                         (<<"str", x.timestamp>>)>>]
        order == SortedReverse(keys)
    IN [k \in DOMAIN order |-> flat[order[k]]]

\* the order rank_subtask2 gives the subtask2 results, as places <<i, j>>
Subtask2Order(subs) ==
    LET flat == Flatten(subs, 1, "subtask2")
        keys == [k \in DOMAIN flat |->
                    LET x == subs[flat[k][1]].results[flat[k][2]]
                    IN <<(<<"float", x.accuracy>>),
                         (<<"float", RNeg(x.hallucination_rate)>>),
                         (<<"str", x.timestamp>>)>>]
        order == SortedReverse(keys)
    IN [k \in DOMAIN order |-> flat[order[k]]]

rank_subtask2(subs) ==
    IF RankKeyError(subs, "subtask2",
                    {"accuracy", "hallucination_rate", "total_tasks", "timestamp"})
    THEN Raise("KeyError")
    ELSE LET order == Subtask2Order(subs)
         IN Ok([k \in DOMAIN order |->
                   LET result == subs[order[k][1]].results[order[k][2]]
                   IN [participant_id |->
                           ItemGet(subs[order[k][1]].participants, "medical_agent"),
                       accuracy |-> result.accuracy,
                       hallucination_rate |-> result.hallucination_rate,
                       total_tasks |-> result.total_tasks,
                       timestamp |-> result.timestamp]])

\* the loop over submission["results"]: stats is participant_stats[participant_id]
RECURSIVE ScanResults(_, _)
ScanResults(stats, results) ==
    IF results = <<>> THEN stats
    ELSE ScanResults(
             [stats EXCEPT
                 !.accuracies = Append(@, Head(results).accuracy),
                 !.latest_timestamp = IF StrLess(@, Head(results).timestamp)
                                      THEN Head(results).timestamp ELSE @],
             Tail(results))

\* the loop over submissions: participant_stats is a dict, ids holds its keys in
\* the order they were inserted and stats its values
RECURSIVE ScanSubmissions(_, _)
ScanSubmissions(participant_stats, subs) ==
    IF subs = <<>> THEN participant_stats
    ELSE LET participant_id == ItemGet(Head(subs).participants, "medical_agent")
             known == \E k \in DOMAIN participant_stats.ids :
                          participant_stats.ids[k] = participant_id
             started ==
                 IF known THEN participant_stats
                 ELSE [ids |-> Append(participant_stats.ids, participant_id),
                       stats |-> (participant_id :> [accuracies |-> <<>>,
                                                     submissions |-> 0,
                                                     latest_timestamp |-> <<>>])
                                 @@ participant_stats.stats]
             counted == [started EXCEPT !.stats[participant_id].submissions = @ + 1]
             scanned == [counted EXCEPT
                            !.stats[participant_id] = ScanResults(@, Head(subs).results)]
         IN ScanSubmissions(scanned, Tail(subs))

\* sum(accuracies)
RECURSIVE Sum(_)
Sum(accuracies) ==
    IF accuracies = <<>> THEN Zero
    ELSE RAdd(Sum(SubSeq(accuracies, 1, Len(accuracies) - 1)),
              accuracies[Len(accuracies)])

\* a mean that divides by the number of submissions
AvgAccuracy_PerSubmission(stats) ==
    IF stats.accuracies # <<>> THEN RDivInt(Sum(stats.accuracies), stats.submissions)
    ELSE Zero

\* avg_accuracy of the accuracies of one participant
AvgAccuracy(stats) ==
    IF stats.accuracies # <<>> THEN RDivInt(Sum(stats.accuracies), Len(stats.accuracies))
    ELSE Zero

\* whether a subscript of the loops of get_overall_ranking raises KeyError
OverallKeyError(subs) ==
    \E i \in DOMAIN subs :
        \/ "participants" \notin DOMAIN subs[i]
        \/ ~HasItem(subs[i].participants, "medical_agent")
        \/ "results" \notin DOMAIN subs[i]
        \/ \E j \in DOMAIN subs[i].results :
              ~({"accuracy", "timestamp"} \subseteq DOMAIN subs[i].results[j])

\* entries whose submissions is the number of results
Ranking_CountsResults(participant_stats) ==
    [k \in DOMAIN participant_stats.ids |->
        LET participant_id == participant_stats.ids[k]
            stats == participant_stats.stats[participant_id]
        IN [participant_id |-> participant_id,
            avg_accuracy |-> AvgAccuracy(stats),
            submissions |-> Len(stats.accuracies),
            latest_timestamp |-> stats.latest_timestamp]]

\* the entries of ranking, in the order of participant_stats.items()
Ranking(participant_stats) ==
    [k \in DOMAIN participant_stats.ids |->
        LET participant_id == participant_stats.ids[k]
            stats == participant_stats.stats[participant_id]
        IN [participant_id |-> participant_id,
            avg_accuracy |-> AvgAccuracy(stats),
            submissions |-> stats.submissions,
            latest_timestamp |-> stats.latest_timestamp]]

get_overall_ranking(subs) ==
    IF OverallKeyError(subs) THEN Raise("KeyError")
    ELSE LET ranking == Ranking(ScanSubmissions([ids |-> <<>>, stats |-> <<>>], subs))
             order == SortedReverse([k \in DOMAIN ranking |->
                                        <<(<<"float", ranking[k].avg_accuracy>>)>>])
         IN Ok([k \in DOMAIN order |-> ranking[order[k]]])

-----------------------------------------------------------------------------
(* Ranking Engine in binary64 arithmetic: metrics.py *)

\* The floats of the code are IEEE-754 binary64 values. The operators above
\* compute on the rationals, which is what the code computes where no operation
\* rounds. The operators below compute sum(accuracies) / len(accuracies) as the
\* build does, each operation rounded to nearest, ties to even. A value that is
\* not 0 is m * 2^e, m the significand of Precision bits; the accuracies are
\* not negative and far from overflow and underflow.

Precision == 53

\* a natural number of any size is the sequence of its digits to the base
\* Base, first digit first and not 0; 0 is <<>>
Base == 8192
BaseBits == 13

RECURSIVE Pow2(_)
Pow2(s) == IF s = 0 THEN 1 ELSE 2 * Pow2(s - 1)

\* the number of bits of an int
RECURSIVE BitLen(_)
BitLen(n) == IF n = 0 THEN 0 ELSE 1 + BitLen(n \div 2)

RECURSIVE ToDigits(_)
ToDigits(n) == IF n = 0 THEN <<>> ELSE Append(ToDigits(n \div Base), n % Base)

\* digits without its leading zeros
RECURSIVE Trim(_)
Trim(digits) ==
    IF digits # <<>> /\ Head(digits) = 0 THEN Trim(Tail(digits)) ELSE digits

NumBits(digits) ==
    IF digits = <<>> THEN 0 ELSE BaseBits * (Len(digits) - 1) + BitLen(Head(digits))

Zeros(n) == [i \in 1 .. n |-> 0]

IsOdd(digits) == digits # <<>> /\ digits[Len(digits)] % 2 = 1

\* a + b + carry, for a and b of one length
RECURSIVE AddDigits(_, _, _)
AddDigits(a, b, carry) ==
    IF a = <<>> THEN (IF carry > 0 THEN <<carry>> ELSE <<>>)
    ELSE Append(AddDigits(SubSeq(a, 1, Len(a) - 1), SubSeq(b, 1, Len(b) - 1),
                          (a[Len(a)] + b[Len(b)] + carry) \div Base),
                (a[Len(a)] + b[Len(b)] + carry) % Base)

\* digits * k + carry, for k up to Base
RECURSIVE MulSmall(_, _, _)
MulSmall(digits, k, carry) ==
    IF digits = <<>> THEN (IF carry > 0 THEN <<carry>> ELSE <<>>)
    ELSE Append(MulSmall(SubSeq(digits, 1, Len(digits) - 1), k,
                         (digits[Len(digits)] * k + carry) \div Base),
                (digits[Len(digits)] * k + carry) % Base)

\* quotient and remainder of digits by n, for n up to Base, a digit at a time:
\* r is the remainder and q the quotient of the digits before digits
RECURSIVE DivSmall(_, _, _, _)
DivSmall(digits, n, r, q) ==
    IF digits = <<>> THEN [q |-> Trim(q), r |-> r]
    ELSE DivSmall(Tail(digits), n, (r * Base + Head(digits)) % n,
                  Append(q, (r * Base + Head(digits)) \div n))

\* digits * 2^s
ShiftLeft(digits, s) ==
    IF digits = <<>> THEN <<>>
    ELSE MulSmall(digits, Pow2(s % BaseBits), 0) \o Zeros(s \div BaseBits)

\* digits \div 2^s, and whether that left a remainder
ShiftRight(digits, s) ==
    LET whole == s \div BaseBits
        kept == SubSeq(digits, 1, Len(digits) - whole)
        low == SubSeq(digits, Len(digits) - whole + 1, Len(digits))
        d == DivSmall(kept, Pow2(s % BaseBits), 0, <<>>)
    IN [q |-> d.q, sticky |-> d.r # 0 \/ \E i \in DOMAIN low : low[i] # 0]

Binary64Zero == [m |-> <<>>, e |-> 0]

\* the binary64 value nearest to (n + f) * 2^e, ties to even, where f is a
\* fraction below 1 that is not 0 iff sticky; sticky only with an n of more
\* than Precision bits
RoundToBinary64(digits, sticky, e) ==
    LET n == Trim(digits)
        bits == NumBits(n)
        dropped == bits - Precision
    IN IF n = <<>> THEN Binary64Zero
       ELSE IF bits <= Precision
            THEN [m |-> ShiftLeft(n, Precision - bits), e |-> e + dropped]
       ELSE LET half == ShiftRight(n, dropped - 1)
                kept == ShiftRight(half.q, 1).q
                up == IsOdd(half.q) /\ (sticky \/ half.sticky \/ IsOdd(kept))
                m == IF up THEN AddDigits(kept, Zeros(Len(kept) - 1) \o <<1>>, 0)
                     ELSE kept
            IN IF NumBits(Trim(m)) > Precision
               THEN [m |-> ShiftRight(Trim(m), 1).q, e |-> e + dropped + 1]
               ELSE [m |-> m, e |-> e + dropped]

\* the float of the rational a: what a JSON number or a quotient of two counts
\* is in the build
Binary64FromRatio(a) ==
    LET d == DivSmall(ShiftLeft(ToDigits(a[1]), 64), a[2], 0, <<>>)
    IN RoundToBinary64(d.q, d.r # 0, 0 - 64)

\* x + y
Binary64Add(x, y) ==
    IF x.m = <<>> THEN y
    ELSE IF y.m = <<>> THEN x
    ELSE LET e == IF x.e < y.e THEN x.e ELSE y.e
             a == ShiftLeft(x.m, x.e - e)
             b == ShiftLeft(y.m, y.e - e)
             len == IF Len(a) < Len(b) THEN Len(b) ELSE Len(a)
         IN RoundToBinary64(AddDigits(Zeros(len - Len(a)) \o a,
                                      Zeros(len - Len(b)) \o b, 0),
                            FALSE, e)

\* x / n, for an int n from 1 to 1023
Binary64DivInt(x, n) ==
    LET d == DivSmall(ShiftLeft(x.m, 12), n, 0, <<>>)
    IN RoundToBinary64(d.q, d.r # 0, x.e - 12)

\* x < y
Binary64Less(x, y) ==
    IF y.m = <<>> THEN FALSE
    ELSE IF x.m = <<>> THEN TRUE
    ELSE IF x.e # y.e THEN x.e < y.e
    ELSE \E i \in DOMAIN x.m :
             /\ x.m[i] < y.m[i]
             /\ \A j \in 1 .. (i - 1) : x.m[j] = y.m[j]

\* sum(accuracies): the additions from the left, each rounded
RECURSIVE Binary64Sum(_)
Binary64Sum(accuracies) ==
    IF accuracies = <<>> THEN Binary64Zero
    ELSE Binary64Add(Binary64Sum(SubSeq(accuracies, 1, Len(accuracies) - 1)),
                     Binary64FromRatio(accuracies[Len(accuracies)]))

\* avg_accuracy of the accuracies of one participant, as the build computes it
AvgAccuracyBinary64(stats) ==
    IF stats.accuracies # <<>>
    THEN Binary64DivInt(Binary64Sum(stats.accuracies), Len(stats.accuracies))
    ELSE Binary64Zero

\* the entries of ranking, in the order of participant_stats.items()
RankingBinary64(participant_stats) ==
    [k \in DOMAIN participant_stats.ids |->
        LET participant_id == participant_stats.ids[k]
            stats == participant_stats.stats[participant_id]
        IN [participant_id |-> participant_id,
            avg_accuracy |-> AvgAccuracyBinary64(stats),
            submissions |-> stats.submissions,
            latest_timestamp |-> stats.latest_timestamp]]

\* get_overall_ranking with the floats of the build. The key of an entry is the
\* number of entries of smaller avg_accuracy, which sorted() orders as it
\* orders the avg_accuracy themselves.
get_overall_ranking_binary64(subs) ==
    IF OverallKeyError(subs) THEN Raise("KeyError")
    ELSE LET ranking == RankingBinary64(ScanSubmissions([ids |-> <<>>, stats |-> <<>>], subs))
             below(k) == Cardinality({j \in DOMAIN ranking :
                             Binary64Less(ranking[j].avg_accuracy, ranking[k].avg_accuracy)})
             order == SortedReverse([k \in DOMAIN ranking |->
                                        <<(<<"float", Rat(below(k), 1)>>)>>])
         IN Ok([k \in DOMAIN order |-> ranking[order[k]]])

-----------------------------------------------------------------------------
(* Submission generator: submission.py *)

process_agentify_results(results) ==
    [total_tasks |-> Get(results, "total_tasks", 0),
     correct_count |-> Get(results, "correct_count", 0),
     pass_rate |-> Get(results, "pass_rate", Zero)]

process_fhir_eval_results(results) ==
    [total_cases |-> Get(results, "total_tasks", 0),
     correct_answers |-> Get(results, "correct_answers", 0),
     accuracy |-> Get(results, "accuracy", Zero),
     hallucination_rate |-> Get(results, "hallucination_rate", Zero)]

process_agentbeats_output(output) ==
    LET results == Get(output, "results", <<>>)
    IN IF results = <<>> THEN Raise("SystemExit") ELSE Ok(results[1])

\* the input type generate_submission works with: the one given, or the one
\* detected from the fields of data
DetectInputType(data, input_type) ==
    IF input_type # "auto" THEN input_type
    ELSE IF "participants" \in DOMAIN data /\ "results" \in DOMAIN data THEN "agentbeats"
    ELSE IF "hallucination_rate" \in DOMAIN data THEN "fhir_eval"
    ELSE IF "correct_count" \in DOMAIN data \/ "pass_rate" \in DOMAIN data THEN "agentify"
    ELSE "auto"

\* generate_submission of submission.py; data is the JSON document of input_file
generate_submission(data, participant_id, input_type, now) ==
    LET detected == DetectInputType(data, input_type)
    IN IF detected = "auto" THEN Raise("SystemExit")
       ELSE IF detected = "agentify" THEN
           create_leaderboard_submission(
               participant_id, Some(process_agentify_results(data)), None, now, now)
       ELSE IF detected = "fhir_eval" THEN
           create_leaderboard_submission(
               participant_id, None, Some(process_fhir_eval_results(data)), now, now)
       ELSE IF detected = "agentbeats" THEN
           LET result == process_agentbeats_output(data)
               subtask == Get(result.val, "subtask", "subtask1")
           IN IF result.err # "none" THEN result
              ELSE IF subtask = "subtask1" THEN
                  create_leaderboard_submission(
                      participant_id, Some(result.val), None, now, now)
              ELSE IF subtask = "subtask2" THEN
                  create_leaderboard_submission(
                      participant_id, None, Some(result.val), now, now)
              ELSE Raise("SystemExit")
       ELSE Raise("SystemExit")

-----------------------------------------------------------------------------
(* Leaderboard submission generator: generate_leaderboard_submission.py *)

extract_agentify_results(eval_output) ==
    [subtask |-> "subtask1",
     total_tasks |-> Get(eval_output, "total_tasks", 0),
     correct_tasks |-> Get(eval_output, "correct_count", 0),
     accuracy |-> Get(eval_output, "pass_rate", Zero),
     success_rate |-> Get(eval_output, "pass_rate", Zero),
     time_used |-> Get(eval_output, "time_used", 0)]

extract_fhir_eval_results(eval_output) ==
    [subtask |-> "subtask2",
     total_tasks |-> Get(eval_output, "total_tasks", 0),
     correct_tasks |-> Get(eval_output, "correct_answers", 0),
     accuracy |-> Get(eval_output, "accuracy", Zero),
     precision |-> Get(eval_output, "avg_precision", Zero),
     recall |-> Get(eval_output, "avg_recall", Zero),
     f1_score |-> Get(eval_output, "f1_score", Zero),
     time_used |-> Get(eval_output, "time_used", 0)]

\* generate_submission of generate_leaderboard_submission.py; eval_output is the
\* JSON document of eval_output_path
generate_leaderboard_submission(eval_output, participant_id, framework, now) ==
    IF framework \notin {"agentify-medagentbench", "fhiragentevaluator"}
    THEN Raise("ValueError")
    ELSE LET result == IF framework = "agentify-medagentbench"
                       THEN extract_agentify_results(eval_output)
                       ELSE extract_fhir_eval_results(eval_output)
         IN Ok([participants |-> Items("medical_agent", participant_id),
                results |-> <<("timestamp" :> now) @@ result>>])

-----------------------------------------------------------------------------
(* Format Normalizer: results_format_adapter.py *)

extract_leaderboard_metrics(result_data, subtask) ==
    IF subtask = "subtask1" THEN
        LET score == Get(result_data, "score", Zero)
            report == Get(result_data, "report", <<>>)
            success_rate == Get(report, "success_rate", Zero)
            batch_info == Get(result_data, "batch_info", <<>>)
            total_tasks == Get(batch_info, "total_tasks", 0)
            correct_tasks == Get(batch_info, "correct_tasks", 0)
            task_results == Get(batch_info, "task_results", <<>>)
            passed == {t \in DOMAIN task_results :
                          Get(task_results[t], "failure_type", "") = ""}
        IN IF RLess(Zero, score) \/ RLess(Zero, success_rate) THEN
               Ok([score |-> score, success_rate |-> success_rate])
           ELSE IF batch_info # <<>> /\ total_tasks > 0 THEN
               Ok([score |-> Rat(correct_tasks, total_tasks),
                   success_rate |-> Rat(correct_tasks, total_tasks)])
           ELSE IF task_results # <<>> THEN
               Ok([score |-> Rat(Cardinality(passed), Cardinality(DOMAIN task_results)),
                   success_rate |->
                       Rat(Cardinality(passed), Cardinality(DOMAIN task_results))])
           ELSE Ok([score |-> Zero, success_rate |-> Zero])
    ELSE IF subtask = "subtask2" THEN
        LET accuracy == Get(result_data, "accuracy", Zero)
            hallucination_rate == Get(result_data, "hallucination_rate", Zero)
        IN IF RLess(Zero, accuracy) \/ RLess(Zero, hallucination_rate) THEN
               Ok([accuracy |-> accuracy, hallucination_rate |-> hallucination_rate])
           ELSE Ok([accuracy |-> Zero, hallucination_rate |-> Zero])
    ELSE Raise("ValueError")

\* scenario is the parsed scenario.toml of the working directory, <<>> when
\* there is no such file
get_participant_id_from_scenario(scenario) ==
    LET participants == Get(scenario, "participants", <<>>)
    IN IF participants # <<>>
       THEN PyOr(Get(participants[1], "agentbeats_id", ""),
                 Get(participants[1], "name", "unknown"))
       ELSE "unknown"

\* an inference that tests for "task" and "batch" first
InferSubtask_TaskFirst(task_id) ==
    LET task_id_str == Lower(task_id)
    IN IF StartsWith(task_id_str, Str_task) \/ Contains(task_id_str, Str_batch)
       THEN "subtask1"
       ELSE IF StartsWith(task_id_str, Str_subtask2) \/ Contains(task_id_str, Str_pokemon)
       THEN "subtask2"
       ELSE "subtask1"

\* the subtask a task_id stands for, when no subtask is given
InferSubtask(task_id) ==
    LET task_id_str == Lower(task_id)
    IN IF StartsWith(task_id_str, Str_subtask2) \/ Contains(task_id_str, Str_pokemon)
       THEN "subtask2"
       ELSE IF StartsWith(task_id_str, Str_task) \/ Contains(task_id_str, Str_batch)
       THEN "subtask1"
       ELSE "subtask1"

transform_pharmagent_results(pharmagent_results, scenario, now) ==
    LET config == Get(pharmagent_results, "config", <<>>)
        result_data == Get(pharmagent_results, "result_data", <<>>)
        given == PyOr(Get(result_data, "subtask", ""), Get(config, "subtask", ""))
        subtask == IF given # "" THEN given
                   ELSE InferSubtask(Get(result_data, "task_id", <<>>))
        metrics == extract_leaderboard_metrics(result_data, subtask)
        own_id == Get(pharmagent_results, "participant_id", "")
        participant_id == IF own_id = "" \/ own_id = "unknown"
                          THEN get_participant_id_from_scenario(scenario)
                          ELSE own_id
        found == PyOrSeq(Get(result_data, "timestamp", <<>>),
                         Get(pharmagent_results, "timestamp", <<>>))
        timestamp == IF found # <<>> THEN found ELSE now
    IN IF metrics.err # "none" THEN metrics
       ELSE Ok(metrics.val @@ [subtask |-> subtask,
                               participant_id |-> participant_id,
                               timestamp |-> timestamp,
                               config |-> config])

\* a loop over parts that finds no part of kind "data"
DataOfParts_None(artifact) == <<>>

\* the data of the parts of kind "data" of an artifact, the empty ones left out
DataOfParts(artifact) ==
    LET parts == SelectSeq(Get(artifact, "parts", <<>>),
                           LAMBDA part : /\ Get(part, "kind", "") = "data"
                                         /\ Get(part, "data", <<>>) # <<>>)
    IN [i \in DOMAIN parts |-> parts[i]["data"]]

\* the data the loop over artifacts and parts comes to, in its order
RECURSIVE EvaluationResultData(_)
EvaluationResultData(artifacts) ==
    IF artifacts = <<>> THEN <<>>
    ELSE (IF Get(Head(artifacts), "name", "") = "Evaluation Result"
          THEN DataOfParts(Head(artifacts)) ELSE <<>>)
         \o EvaluationResultData(Tail(artifacts))

transform_agentbeats_results(agentbeats_results, scenario, now) ==
    LET participants == Get(agentbeats_results, "participants", <<>>)
        \* None is the empty str
        participant_id == IF participants # <<>> THEN participants[1][2] ELSE ""
        \* x["participant_id"] = participant_id, if participant_id
        WithId(x) == IF participant_id # ""
                     THEN ("participant_id" :> participant_id) @@ x ELSE x
        Wrap(transformed) ==
            IF transformed.err # "none" THEN transformed
            ELSE Ok([participants |-> participants, results |-> <<transformed.val>>])
        data == EvaluationResultData(Get(agentbeats_results, "artifacts", <<>>))
    IN IF /\ "subtask" \in DOMAIN agentbeats_results
          /\ "participant_id" \in DOMAIN agentbeats_results
       THEN Ok([participants |-> participants,
                results |-> <<IF agentbeats_results["participant_id"] = ""
                              THEN WithId(agentbeats_results)
                              ELSE agentbeats_results>>])
       ELSE IF Get(agentbeats_results, "results", <<>>) # <<>>
       THEN Wrap(transform_pharmagent_results(
                     WithId(agentbeats_results["results"][1]), scenario, now))
       ELSE IF data # <<>>
       THEN Wrap(transform_pharmagent_results(WithId(data[1]), scenario, now))
       ELSE IF "result_data" \in DOMAIN agentbeats_results
       THEN Wrap(transform_pharmagent_results(WithId(agentbeats_results), scenario, now))
       ELSE Ok([participants |-> participants,
                results |-> <<IF "participant_id" \notin DOMAIN agentbeats_results
                              THEN WithId(agentbeats_results)
                              ELSE agentbeats_results>>])

\* the places <<i, j>> of the parts the loop over artifacts and parts stops at:
\* part j of kind "data" with data, in artifact i named "Evaluation Result"
EvaluationResultParts(artifacts) ==
    UNION {{<<i, j>> : j \in {k \in DOMAIN Get(artifacts[i], "parts", <<>>) :
                                 /\ Get(artifacts[i]["parts"][k], "kind", "") = "data"
                                 /\ Get(artifacts[i]["parts"][k], "data", <<>>) # <<>>}} :
           i \in {k \in DOMAIN artifacts :
                     Get(artifacts[k], "name", "") = "Evaluation Result"}}

\* the object agentbeats_results when transform_agentbeats_results returns: the
\* assignments of participant_id to result_item, data and agentbeats_results
agentbeats_results_after(agentbeats_results) ==
    LET participants == Get(agentbeats_results, "participants", <<>>)
        participant_id == IF participants # <<>> THEN participants[1][2] ELSE ""
        WithId(x) == IF participant_id # ""
                     THEN ("participant_id" :> participant_id) @@ x ELSE x
        artifacts == Get(agentbeats_results, "artifacts", <<>>)
        found == EvaluationResultParts(artifacts)
        first == CHOOSE at \in found :
                     \A other \in found :
                         \/ at[1] < other[1]
                         \/ at[1] = other[1] /\ at[2] <= other[2]
    IN IF /\ "subtask" \in DOMAIN agentbeats_results
          /\ "participant_id" \in DOMAIN agentbeats_results
       THEN agentbeats_results
       ELSE IF Get(agentbeats_results, "results", <<>>) # <<>>
       THEN [agentbeats_results EXCEPT !["results"][1] = WithId(@)]
       ELSE IF found # {}
       THEN [agentbeats_results EXCEPT
                !["artifacts"][first[1]]["parts"][first[2]]["data"] = WithId(@)]
       ELSE IF "result_data" \in DOMAIN agentbeats_results
       THEN WithId(agentbeats_results)
       ELSE IF "participant_id" \notin DOMAIN agentbeats_results
       THEN WithId(agentbeats_results)
       ELSE agentbeats_results

-----------------------------------------------------------------------------
(* Calls *)

\* raw counts given to the Metrics Calculator
Subtask1Inputs ==
    {a @@ b @@ c : a \in Opt("total_tasks", Counts),
                   b \in Opt("correct_count", Counts),
                   c \in Opt("correct_tasks", Counts)}

Subtask2Inputs ==
    {a @@ b @@ c @@ d @@ e :
        a \in Opt("total_cases", 0 .. MaxCount),
        b \in Opt("total_tasks", Counts),
        c \in Opt("correct_answers", Counts),
        d \in Opt("correct_cases", 0 .. 1),
        e \in Opt("hallucination_rate", Rates)}

\* the overall.json of Agentify-MedAgentBench
AgentifyDocs ==
    {a @@ b @@ c @@ d :
        a \in Opt("total_tasks", Counts),
        b \in Opt("correct_count", Counts),
        c \in Opt("pass_rate", Rates),
        d \in Opt("time_used", {7})}

\* the output of the FHIR Agent Evaluator
FhirDocs ==
    {a @@ b @@ c @@ d @@ e :
        a \in Opt("total_tasks", 0 .. MaxCount),
        b \in Opt("correct_answers", 0 .. MaxCount),
        c \in Opt("accuracy", Rates),
        d \in Opt("hallucination_rate", {Zero, Rat(1, 2)}),
        e \in {<<>>, [avg_precision |-> Rat(1, 2), avg_recall |-> Rat(4, 5),
                      f1_score |-> Rat(1, 2), time_used |-> 7]}}

\* the output of the AgentBeats client: participants and a results array
AgentBeatsRecords ==
    {a @@ b @@ c @@ d @@ e :
        a \in Opt("subtask", {"subtask1", "subtask2", "subtask3"}),
        b \in Opt("total_tasks", {0, MaxCount}),
        c \in Opt("correct_tasks", {1}),
        d \in Opt("accuracy", {Rat(1, 2)}),
        e \in Opt("hallucination_rate", {Rat(1, 2)})}

AgentBeatsDocs ==
    {[participants |-> Items("medical_agent", "p2"), results |-> results] :
        results \in {<<>>} \cup {<<r>> : r \in AgentBeatsRecords}}

\* scenario.toml: missing, or naming a first participant
ScenarioFiles ==
    {<<>>, [participants |-> <<[agentbeats_id |-> "p9", name |-> "agent"]>>]}

TaskIds ==
    {<<"t", "a", "s", "k", "_", "1">>,
     <<"P", "o", "k", "e", "m", "o", "n">>,
     <<"x">>,
     <<"t", "a", "s", "k", "_", "p", "o", "k", "e", "m", "o", "n", "_", "1">>,
     <<"S", "u", "b", "T", "a", "s", "k", "2", "_", "a">>,
     <<"m", "y", "_", "B", "a", "t", "c", "h">>}

BatchInfos ==
    {a @@ b @@ c :
        a \in Opt("total_tasks", {0, MaxCount}),
        b \in Opt("correct_tasks", {1}),
        c \in Opt("task_results",
                  {[t1 |-> <<>>, t2 |-> [failure_type |-> "wrong"],
                    t3 |-> [failure_type |-> ""]]})}

\* result_data of the legacy nested shape, for either subtask
Subtask1ResultData ==
    {a @@ b @@ c @@ d @@ e @@ f :
        a \in Opt("subtask", {"subtask1"}),
        b \in Opt("task_id", TaskIds),
        c \in Opt("score", {Zero, Rat(1, 2)}),
        d \in Opt("report", {<<>>, [success_rate |-> Rat(4, 5)]}),
        e \in Opt("batch_info", BatchInfos),
        f \in Opt("timestamp", {T1})}

Subtask2ResultData ==
    {a @@ b @@ c @@ d @@ e :
        a \in Opt("subtask", {"subtask2", "subtask3"}),
        b \in Opt("task_id", TaskIds),
        c \in Opt("accuracy", {Zero, Rat(4, 5)}),
        d \in Opt("hallucination_rate", {Zero, Rat(1, 2)}),
        e \in Opt("timestamp", {T1})}

FewResultData ==
    {<<>>,
     [subtask |-> "subtask1", score |-> Rat(1, 2)],
     [subtask |-> "subtask2", accuracy |-> Rat(4, 5), timestamp |-> T1],
     [subtask |-> "subtask2", accuracy |-> Rat(4, 5), hallucination_rate |-> Rat(1, 5),
      metrics |-> [total_cases |-> 5]],
     [subtask |-> "subtask2", accuracy |-> Rat(1, 2), hallucination_rate |-> Rat(1, 2),
      total_tasks |-> 3],
     [subtask |-> "subtask1", total_tasks |-> 4, correct_tasks |-> 2],
     [task_id |-> <<"P", "o", "k", "e", "m", "o", "n">>]}

\* what surrounds result_data in a raw PharmAgent result
RawFields ==
    {a @@ b @@ c :
        a \in Opt("config", {[subtask |-> "subtask2"]}),
        b \in Opt("participant_id", {"unknown", "p2"}),
        c \in Opt("timestamp", {T2})}

FewRawResults == {[result_data |-> rd] @@ o : rd \in FewResultData, o \in RawFields}

RawResults ==
    {[result_data |-> rd] : rd \in Subtask1ResultData \cup Subtask2ResultData}
    \cup FewRawResults \cup RawFields

ParticipantMaps ==
    {<<>>, Items("medical_agent", "p1"),
     <<<<"evaluator", "p3">>, <<"medical_agent", "p1">>>>}

Artifacts ==
    {<<>>,
     <<[name |-> "Log", parts |-> <<[kind |-> "data", data |-> [result_data |-> <<>>]]>>],
       [name |-> "Evaluation Result",
        parts |-> <<[kind |-> "text", text |-> "done"],
                    [kind |-> "data", data |-> <<>>],
                    [kind |-> "data",
                     data |-> [result_data |-> [subtask |-> "subtask2",
                                                accuracy |-> Rat(4, 5)],
                               participant_id |-> "p2"]]>>]>>,
     <<[name |-> "Evaluation Result", parts |-> <<[kind |-> "data", data |-> <<>>]>>]>>}

\* documents that have both a subtask and a participant_id
CanonicalDocs ==
    {a @@ b @@ c @@ d @@ e @@ f :
        a \in {"subtask" :> v : v \in {"subtask1", "subtask2", "subtask3"}},
        b \in {"participant_id" :> v : v \in {"", "unknown", "p2"}},
        c \in Opt("timestamp", {T1}),
        d \in {<<>>, [accuracy |-> Rat(4, 5), hallucination_rate |-> Rat(1, 2)],
               [score |-> Zero, success_rate |-> Zero, config |-> <<>>]},
        e \in Opt("result_data", {[subtask |-> "subtask2", accuracy |-> Rat(4, 5)]}),
        f \in Opt("artifacts", Artifacts)}

\* documents of the other shapes: a results array, artifacts, a raw result,
\* and none of them
OtherDocs ==
    {a @@ b @@ c @@ d :
        a \in Opt("results", {<<>>} \cup {<<r>> : r \in FewRawResults}),
        b \in Opt("artifacts", Artifacts),
        c \in Opt("result_data", {[subtask |-> "subtask1", score |-> Rat(1, 2)]}),
        d \in Opt("participant_id", {"p2"})}

AgentBeatsResults ==
    {d @@ p : d \in CanonicalDocs \cup OtherDocs, p \in Opt("participants", ParticipantMaps)}

Init ==
    /\ op = "init"
    /\ arg = <<>>
    /\ arg_after = <<>>
    /\ ret = Ok(<<>>)
    /\ submissions = <<>>

CalculateMetrics ==
    /\ op = "init"
    /\ \E subtask \in {"subtask1", "subtask2", "subtask3"}, now \in Timestamps :
       \E results \in IF subtask = "subtask2" THEN Subtask2Inputs ELSE Subtask1Inputs :
           /\ op' = "calculate_metrics"
           /\ arg' = [results |-> results, subtask |-> subtask]
           /\ arg_after' = arg'
           /\ ret' = calculate_metrics(results, subtask, now)
           /\ UNCHANGED submissions

\* python submission.py <input.json> <participant_id> [input_type]
GenerateSubmission ==
    /\ op = "init"
    /\ \E data \in AgentifyDocs \cup FhirDocs \cup AgentBeatsDocs,
          input_type \in {"auto", "agentify", "fhir_eval", "agentbeats", "csv"},
          now \in Timestamps :
           /\ op' = "generate_submission"
           /\ arg' = [data |-> data, participant_id |-> "p1", input_type |-> input_type]
           /\ arg_after' = arg'
           /\ ret' = generate_submission(data, "p1", input_type, now)
           /\ UNCHANGED submissions

\* python generate_leaderboard_submission.py <eval_output.json> <participant_id> <framework>
GenerateLeaderboardSubmission ==
    /\ op = "init"
    /\ \E eval_output \in AgentifyDocs \cup FhirDocs,
          framework \in {"agentify-medagentbench", "fhiragentevaluator", "other"},
          now \in Timestamps :
           /\ op' = "generate_leaderboard_submission"
           /\ arg' = [eval_output |-> eval_output, participant_id |-> "p1",
                      framework |-> framework]
           /\ arg_after' = arg'
           /\ ret' = generate_leaderboard_submission(eval_output, "p1", framework, now)
           /\ UNCHANGED submissions

\* transform_pharmagent_results on a raw PharmAgent result
TransformPharmagent ==
    /\ op = "init"
    /\ \E pharmagent_results \in RawResults, scenario \in ScenarioFiles,
          now \in Timestamps :
           /\ op' = "transform_pharmagent_results"
           /\ arg' = [pharmagent_results |-> pharmagent_results, scenario |-> scenario]
           /\ arg_after' = arg'
           /\ ret' = transform_pharmagent_results(pharmagent_results, scenario, now)
           /\ UNCHANGED submissions

\* python results_format_adapter.py <input_file> <output_file>
TransformAgentbeats ==
    /\ op = "init"
    /\ \E agentbeats_results \in AgentBeatsResults, scenario \in ScenarioFiles,
          now \in Timestamps :
           /\ op' = "transform_agentbeats_results"
           /\ arg' = [agentbeats_results |-> agentbeats_results, scenario |-> scenario]
           /\ arg_after' = [agentbeats_results |-> agentbeats_results_after(agentbeats_results),
                            scenario |-> scenario]
           /\ ret' = transform_agentbeats_results(agentbeats_results, scenario, now)
           /\ UNCHANGED submissions

\* the same, on the output file of the run before
Renormalize ==
    /\ op = "transform_agentbeats_results"
    /\ ret.err = "none"
    /\ \E now \in Timestamps :
           /\ op' = "renormalize"
           /\ arg' = [agentbeats_results |-> ret.val, scenario |-> arg.scenario,
                      origin |-> arg.agentbeats_results]
           /\ arg_after' = [agentbeats_results |-> agentbeats_results_after(ret.val),
                            scenario |-> arg.scenario,
                            origin |-> arg.agentbeats_results]
           /\ ret' = transform_agentbeats_results(ret.val, arg.scenario, now)
           /\ UNCHANGED submissions

Next ==
    \/ CalculateMetrics
    \/ GenerateSubmission
    \/ GenerateLeaderboardSubmission
    \/ TransformPharmagent
    \/ TransformAgentbeats
    \/ Renormalize

Spec == Init /\ [][Next]_vars

-----------------------------------------------------------------------------
(* The Ranking Engine on a list of Submissions *)

RankAccuracies == {Rat(3, 5), Rat(4, 5)}

\* Result Records as the Ranking Engine reads them
Subtask1Records ==
    {[subtask |-> "subtask1", total_tasks |-> 5, correct_tasks |-> (5 * a[1]) \div a[2],
      accuracy |-> a, timestamp |-> t] :
        a \in RankAccuracies, t \in Timestamps}

Subtask2Records ==
    {[subtask |-> "subtask2", total_tasks |-> 5, correct_tasks |-> (5 * a[1]) \div a[2],
      accuracy |-> a, hallucination_rate |-> h, timestamp |-> t] :
        a \in RankAccuracies, h \in {Zero, Rat(1, 5)}, t \in Timestamps}

RecordCount == IF submissions = <<>> THEN 0
               ELSE Len(Flatten(submissions, 1, "subtask1"))
                    + Len(Flatten(submissions, 1, "subtask2"))

\* the list given to the Ranking Engine gets its next Submission, without
\* results yet
LoadSubmission ==
    /\ op \in {"init", "load"}
    /\ Len(submissions) < MaxSubs
    /\ \E participant_id \in Participants :
           submissions' = Append(submissions,
                                 [participants |-> Items("medical_agent", participant_id),
                                  results |-> <<>>])
    /\ op' = "load"
    /\ UNCHANGED <<arg, arg_after, ret>>

\* and its next Result Record
LoadResult ==
    /\ op = "load"
    /\ submissions # <<>>
    /\ RecordCount < MaxRecords
    /\ \E record \in Subtask1Records \cup Subtask2Records :
           submissions' = [submissions EXCEPT
                              ![Len(submissions)].results = Append(@, record)]
    /\ UNCHANGED <<op, arg, arg_after, ret>>

RankSubtask1 ==
    /\ op \in {"init", "load"}
    /\ op' = "rank_subtask1"
    /\ ret' = rank_subtask1(submissions)
    /\ UNCHANGED <<arg, arg_after, submissions>>

RankSubtask2 ==
    /\ op \in {"init", "load"}
    /\ op' = "rank_subtask2"
    /\ ret' = rank_subtask2(submissions)
    /\ UNCHANGED <<arg, arg_after, submissions>>

GetOverallRanking ==
    /\ op \in {"init", "load"}
    /\ op' = "get_overall_ranking"
    /\ ret' = get_overall_ranking(submissions)
    /\ UNCHANGED <<arg, arg_after, submissions>>

NextRank ==
    \/ LoadSubmission
    \/ LoadResult
    \/ RankSubtask1
    \/ RankSubtask2
    \/ GetOverallRanking

SpecRank == Init /\ [][NextRank]_vars

-----------------------------------------------------------------------------
(* The Ranking Engine on Submissions with partial Result Records *)

\* the record without its key k
Without(record, k) == [x \in DOMAIN record \ {k} |-> record[x]]

CompleteRecords ==
    {[subtask |-> "subtask1", total_tasks |-> 5, correct_tasks |-> 4,
      accuracy |-> Rat(4, 5), timestamp |-> T1],
     [subtask |-> "subtask2", total_tasks |-> 5, correct_tasks |-> 3,
      accuracy |-> Rat(3, 5), hallucination_rate |-> Rat(1, 5), timestamp |-> T2]}

\* Result Records that lack one of the keys the Ranking Engine reads
PartialRecords ==
    {Without(record, k) :
        record \in CompleteRecords,
        k \in {"accuracy", "hallucination_rate", "total_tasks", "correct_tasks",
               "timestamp"}} \ CompleteRecords

\* the next Result Record of the last Submission, complete or partial
LoadPartialResult ==
    /\ op = "load"
    /\ submissions # <<>>
    /\ RecordCount < MaxRecords
    /\ \E record \in CompleteRecords \cup PartialRecords :
           submissions' = [submissions EXCEPT
                              ![Len(submissions)].results = Append(@, record)]
    /\ UNCHANGED <<op, arg, arg_after, ret>>

NextPartial ==
    \/ LoadSubmission
    \/ LoadPartialResult
    \/ RankSubtask1
    \/ RankSubtask2
    \/ GetOverallRanking

SpecPartial == Init /\ [][NextPartial]_vars

-----------------------------------------------------------------------------
(* The Ranking Engine with the floats of the build: Submissions of one Result
   Record each, whose accuracies get_overall_ranking adds up *)

MaxAddends == 3    \* Submissions, and so accuracies in one sum

AddendAccuracies == {Rat(1, 10), Rat(1, 5), Rat(3, 10)}

AddendRecords ==
    {[subtask |-> s, total_tasks |-> 10, correct_tasks |-> (10 * a[1]) \div a[2],
      accuracy |-> a, hallucination_rate |-> Zero, timestamp |-> T1] :
        s \in {"subtask1", "subtask2"}, a \in AddendAccuracies}

LoadAddend ==
    /\ op \in {"init", "load"}
    /\ Len(submissions) < MaxAddends
    /\ \E participant_id \in Participants, record \in AddendRecords :
           submissions' = Append(submissions,
                                 [participants |-> Items("medical_agent", participant_id),
                                  results |-> <<record>>])
    /\ op' = "load"
    /\ UNCHANGED <<arg, arg_after, ret>>

GetOverallRankingBinary64 ==
    /\ op \in {"init", "load"}
    /\ op' = "get_overall_ranking"
    /\ ret' = get_overall_ranking_binary64(submissions)
    /\ UNCHANGED <<arg, arg_after, submissions>>

NextBinary64 ==
    \/ LoadAddend
    \/ RankSubtask1
    \/ RankSubtask2
    \/ GetOverallRankingBinary64

SpecBinary64 == Init /\ [][NextBinary64]_vars

-----------------------------------------------------------------------------
(* Claims about the Metrics Calculator *)

Calculated == op = "calculate_metrics" /\ arg.subtask \in {"subtask1", "subtask2"}

\* the total and the correct count an input of the calculator states
InputTotal ==
    IF arg.subtask = "subtask1" THEN Get(arg.results, "total_tasks", 0)
    ELSE IF "total_cases" \in DOMAIN arg.results THEN arg.results["total_cases"]
    ELSE Get(arg.results, "total_tasks", 0)

InputCorrect ==
    IF arg.subtask = "subtask1"
    THEN IF "correct_count" \in DOMAIN arg.results THEN arg.results["correct_count"]
         ELSE Get(arg.results, "correct_tasks", 0)
    ELSE IF "correct_answers" \in DOMAIN arg.results THEN arg.results["correct_answers"]
         ELSE Get(arg.results, "correct_cases", 0)

TotalMissing ==
    IF arg.subtask = "subtask1" THEN "total_tasks" \notin DOMAIN arg.results
    ELSE DOMAIN arg.results \cap {"total_cases", "total_tasks"} = {}

\* C1: for every input of the Metrics Calculator, of either subtask, no error is
\* raised, the accuracy is correct/total when the total count is > 0, and it is
\* exactly 0.0 when the total count is 0 or missing, whatever the correct count.
C1_AccuracyZeroGuarded ==
    Calculated =>
        /\ ret.err = "none"
        /\ InputTotal > 0 =>
              /\ ret.val.accuracy[2] > 0
              /\ ret.val.accuracy[1] * InputTotal = InputCorrect * ret.val.accuracy[2]
        /\ (InputTotal = 0 \/ TotalMissing) => ret.val.accuracy = <<0, 1>>

\* C1 witness: a missing total with a positive correct count gives accuracy 0.0
C1_Witness ==
    /\ Calculated
    /\ TotalMissing
    /\ InputCorrect > 0
    /\ ret.err = "none"
    /\ ret.val.accuracy = <<0, 1>>

\* C2: for non-negative counts with correct <= total, the accuracy of the record
\* calculate_metrics returns is within [0.0, 1.0]; an input with correct > total
\* is not rejected: a record is returned that carries both counts as given.
C2_AccuracyInUnitInterval ==
    (Calculated /\ InputTotal >= 0 /\ InputCorrect >= 0) =>
        /\ ret.err = "none"
        /\ ret.val.total_tasks = InputTotal
        /\ ret.val.correct_tasks = InputCorrect
        /\ InputCorrect <= InputTotal =>
              /\ RLeq(<<0, 1>>, ret.val.accuracy)
              /\ RLeq(ret.val.accuracy, <<1, 1>>)

\* C2 witness: correct > total > 0 is accepted and gives an accuracy above 1.0
C2_Witness ==
    /\ Calculated
    /\ InputTotal > 0
    /\ InputCorrect > InputTotal
    /\ ret.err = "none"
    /\ RLess(<<1, 1>>, ret.val.accuracy)

-----------------------------------------------------------------------------
(* Claims about the producers of subtask2 and subtask1 records *)

\* the hallucination_rate the claim C3 gives the record rec made from source
DefaultedHallucinationRate(source, rec) ==
    /\ "hallucination_rate" \in DOMAIN rec
    /\ rec.hallucination_rate =
           IF "hallucination_rate" \in DOMAIN source THEN source.hallucination_rate
           ELSE RSub(One, rec.accuracy)

\* C3 (as claimed): on every path that makes a subtask2 record, its
\* hallucination_rate is the one the source reports and, when the source reports
\* none, exactly 1.0 - accuracy of the same record.
C3_HallucinationDefaultEveryPath ==
    /\ (op = "calculate_metrics" /\ arg.subtask = "subtask2") =>
           DefaultedHallucinationRate(arg.results, ret.val)
    /\ (/\ op = "generate_submission"
        /\ DetectInputType(arg.data, arg.input_type) = "fhir_eval") =>
           /\ ret.err = "none"
           /\ Len(ret.val.results) = 1
           /\ DefaultedHallucinationRate(arg.data, ret.val.results[1])
    /\ (/\ op = "transform_pharmagent_results"
        /\ ret.err = "none"
        /\ ret.val.subtask = "subtask2") =>
           DefaultedHallucinationRate(
               Get(arg.pharmagent_results, "result_data", <<>>), ret.val)

\* C3, the part that holds: Subtask2Metrics.calculate called on the source itself
C3_DirectCalculation ==
    (op = "calculate_metrics" /\ arg.subtask = "subtask2") =>
        DefaultedHallucinationRate(arg.results, ret.val)

\* C4 (as claimed): normalizing the normalization of a document that has both a
\* subtask and a participant_id gives that normalization again.
C4_NormalizeIdempotent ==
    (/\ op = "renormalize"
     /\ {"subtask", "participant_id"} \subseteq DOMAIN arg.origin) =>
        ret = Ok(arg.agentbeats_results)

\* the record the claim C10 gives a medagentbench result
AgentifyRecord(source, rec) ==
    /\ rec.subtask = "subtask1"
    /\ rec.total_tasks = source.total_tasks
    /\ rec.correct_tasks = source.correct_count
    /\ rec.accuracy = source.pass_rate
    /\ "success_rate" \in DOMAIN rec
    /\ rec.success_rate = source.pass_rate

\* C10 (as claimed): on both paths for agentify input, a result with total_tasks
\* T, correct_count C and pass_rate P gives a subtask1 record with total_tasks T,
\* correct_tasks C, accuracy P and success_rate P.
C10_AgentifyRecordEveryPath ==
    /\ (/\ op = "generate_leaderboard_submission"
        /\ arg.framework = "agentify-medagentbench"
        /\ {"total_tasks", "correct_count", "pass_rate"} \subseteq DOMAIN arg.eval_output) =>
           /\ ret.err = "none"
           /\ Len(ret.val.results) = 1
           /\ AgentifyRecord(arg.eval_output, ret.val.results[1])
    /\ (/\ op = "generate_submission"
        /\ DetectInputType(arg.data, arg.input_type) = "agentify"
        /\ {"total_tasks", "correct_count", "pass_rate"} \subseteq DOMAIN arg.data) =>
           /\ ret.err = "none"
           /\ Len(ret.val.results) = 1
           /\ AgentifyRecord(arg.data, ret.val.results[1])

\* C10, the part that holds: extract_agentify_results
C10_ExtractAgentify ==
    (/\ op = "generate_leaderboard_submission"
     /\ arg.framework = "agentify-medagentbench"
     /\ {"total_tasks", "correct_count", "pass_rate"} \subseteq DOMAIN arg.eval_output) =>
        /\ ret.err = "none"
        /\ Len(ret.val.results) = 1
        /\ AgentifyRecord(arg.eval_output, ret.val.results[1])

-----------------------------------------------------------------------------
(* Claims about the Ranking Engine *)

\* the participant a Submission is attributed to
MedicalAgent(submission) == ItemGet(submission.participants, "medical_agent")

\* the entries of a subtask in the order of the input: submission by submission,
\* result by result
InputEntries(subtask) ==
    LET flat == Flatten(submissions, 1, subtask)
    IN [k \in DOMAIN flat |->
           LET result == submissions[flat[k][1]].results[flat[k][2]]
           IN [participant_id |-> MedicalAgent(submissions[flat[k][1]]),
               result |-> result]]

\* C5: the output of rank_subtask1 is non-increasing in accuracy, and entries of
\* equal accuracy are in non-increasing order of timestamp, compared as strings.
C5_Subtask1Order ==
    op = "rank_subtask1" =>
        /\ ret.err = "none"
        /\ \A k \in 1 .. (Len(ret.val) - 1) :
              /\ RLeq(ret.val[k + 1].accuracy, ret.val[k].accuracy)
              /\ ret.val[k + 1].accuracy = ret.val[k].accuracy =>
                     ~StrLess(ret.val[k].timestamp, ret.val[k + 1].timestamp)

\* C5 witness: accuracies equal, T1 before T2 in the input, T2 first in the output
C5_Witness ==
    /\ op = "rank_subtask1"
    /\ Len(InputEntries("subtask1")) = 2
    /\ InputEntries("subtask1")[1].result.timestamp = T1
    /\ InputEntries("subtask1")[2].result.timestamp = T2
    /\ Len(ret.val) = 2
    /\ ret.val[1].accuracy = ret.val[2].accuracy
    /\ ret.val[1].timestamp = T2
    /\ ret.val[2].timestamp = T1
    /\ StrLess(T1, T2)

\* C6: the output of rank_subtask2 is non-increasing in accuracy; entries of equal
\* accuracy are in non-decreasing order of hallucination_rate; entries equal in
\* both are in non-increasing order of timestamp.
C6_Subtask2Order ==
    op = "rank_subtask2" =>
        /\ ret.err = "none"
        /\ \A k \in 1 .. (Len(ret.val) - 1) :
              LET a == ret.val[k]
                  b == ret.val[k + 1]
              IN /\ RLeq(b.accuracy, a.accuracy)
                 /\ b.accuracy = a.accuracy =>
                        /\ RLeq(a.hallucination_rate, b.hallucination_rate)
                        /\ b.hallucination_rate = a.hallucination_rate =>
                               ~StrLess(a.timestamp, b.timestamp)

\* C6 witness: accuracies equal, the lower hallucination_rate second in the input
\* and first in the output, although its timestamp is the earlier one
C6_Witness ==
    /\ op = "rank_subtask2"
    /\ Len(InputEntries("subtask2")) = 2
    /\ RLess(InputEntries("subtask2")[2].result.hallucination_rate,
             InputEntries("subtask2")[1].result.hallucination_rate)
    /\ Len(ret.val) = 2
    /\ ret.val[1].accuracy = ret.val[2].accuracy
    /\ RLess(ret.val[1].hallucination_rate, ret.val[2].hallucination_rate)
    /\ StrLess(ret.val[1].timestamp, ret.val[2].timestamp)

\* C7: rank_subtask1 and rank_subtask2 are stable: the entries of one sort key
\* are in the output in the order they have in the flattened input.
C7_Stable ==
    /\ op = "rank_subtask1" =>
           \A a \in RankAccuracies, t \in Timestamps :
               SelectSeq(ret.val, LAMBDA e : e.accuracy = a /\ e.timestamp = t)
               = LET same == SelectSeq(InputEntries("subtask1"),
                                       LAMBDA e : /\ e.result.accuracy = a
                                                  /\ e.result.timestamp = t)
                 IN [k \in DOMAIN same |->
                        [participant_id |-> same[k].participant_id,
                         accuracy |-> same[k].result.accuracy,
                         correct_tasks |-> same[k].result.correct_tasks,
                         total_tasks |-> same[k].result.total_tasks,
                         timestamp |-> same[k].result.timestamp]]
    /\ op = "rank_subtask2" =>
           \A a \in RankAccuracies, h \in {Zero, Rat(1, 5)}, t \in Timestamps :
               SelectSeq(ret.val, LAMBDA e : /\ e.accuracy = a
                                             /\ e.hallucination_rate = h
                                             /\ e.timestamp = t)
               = LET same == SelectSeq(InputEntries("subtask2"),
                                       LAMBDA e : /\ e.result.accuracy = a
                                                  /\ e.result.hallucination_rate = h
                                                  /\ e.result.timestamp = t)
                 IN [k \in DOMAIN same |->
                        [participant_id |-> same[k].participant_id,
                         accuracy |-> same[k].result.accuracy,
                         hallucination_rate |-> same[k].result.hallucination_rate,
                         total_tasks |-> same[k].result.total_tasks,
                         timestamp |-> same[k].result.timestamp]]

\* C7 witness: two subtask2 records of one sort key, the first of p2 and the
\* second of p1, are ranked p2 before p1
C7_Witness ==
    /\ op = "rank_subtask2"
    /\ Len(ret.val) = 2
    /\ ret.val[1].accuracy = ret.val[2].accuracy
    /\ ret.val[1].hallucination_rate = ret.val[2].hallucination_rate
    /\ ret.val[1].timestamp = ret.val[2].timestamp
    /\ ret.val[1].participant_id = "p2"
    /\ ret.val[2].participant_id = "p1"
    /\ InputEntries("subtask2")[1].participant_id = "p2"

\* the places <<i, j>> of the Result Records of the Submissions of a participant
PlacesOf(participant_id) ==
    {<<i, j>> \in (1 .. MaxSubs + 1) \X (1 .. MaxRecords + 1) :
        /\ i \in DOMAIN submissions
        /\ MedicalAgent(submissions[i]) = participant_id
        /\ j \in DOMAIN submissions[i].results}

\* the exact sum of the accuracies at a set of places
RECURSIVE SumAt(_)
SumAt(places) ==
    IF places = {} THEN <<0, 1>>
    ELSE LET at == CHOOSE x \in places : TRUE
             rest == SumAt(places \ {at})
             a == submissions[at[1]].results[at[2]].accuracy
         IN <<rest[1] * a[2] + a[1] * rest[2], rest[2] * a[2]>>

C9_OneEntryPerParticipant ==
    op = "get_overall_ranking" =>
        /\ ret.err = "none"
        /\ {ret.val[k].participant_id : k \in DOMAIN ret.val}
               = {MedicalAgent(submissions[i]) : i \in DOMAIN submissions}
        /\ \A k, l \in DOMAIN ret.val :
               ret.val[k].participant_id = ret.val[l].participant_id => k = l
        /\ \A k \in 1 .. (Len(ret.val) - 1) :
               RLeq(ret.val[k + 1].avg_accuracy, ret.val[k].avg_accuracy)

\* C9 witness: two participants, the one of the second Submission has the higher
\* average and is ranked first
C9_Witness ==
    /\ op = "get_overall_ranking"
    /\ Len(submissions) = 2
    /\ MedicalAgent(submissions[1]) # MedicalAgent(submissions[2])
    /\ Len(ret.val) = 2
    /\ ret.val[1].participant_id = MedicalAgent(submissions[2])
    /\ RLess(ret.val[2].avg_accuracy, ret.val[1].avg_accuracy)

-----------------------------------------------------------------------------
(* Claims about the Format Normalizer *)

\* round(x) of Python for a float x >= 0: to the nearest int, a tie to the even one
Round(x) ==
    LET floor == x[1] \div x[2]
        twice == 2 * (x[1] % x[2])
    IN IF twice < x[2] THEN floor
       ELSE IF twice > x[2] THEN floor + 1
       ELSE IF floor % 2 = 0 THEN floor ELSE floor + 1

\* result_data of the legacy shape for subtask2 with a total: metrics.total_cases,
\* else result_data.total_tasks
LegacySubtask2(result_data) ==
    /\ Get(result_data, "subtask", "") = "subtask2"
    /\ {"accuracy", "hallucination_rate"} \subseteq DOMAIN result_data
    /\ \/ "total_cases" \in DOMAIN Get(result_data, "metrics", <<>>)
       \/ "total_tasks" \in DOMAIN result_data

LegacyTotal(result_data) ==
    IF "total_cases" \in DOMAIN Get(result_data, "metrics", <<>>)
    THEN result_data.metrics.total_cases
    ELSE result_data.total_tasks

\* C11 (as claimed): a legacy record whose result_data has subtask "subtask2",
\* accuracy A, hallucination_rate H and a total N normalizes to a record with
\* total_tasks N, accuracy A, hallucination_rate H and correct_tasks round(N * A).
C11_LegacySubtask2Record ==
    (/\ op = "transform_pharmagent_results"
     /\ LegacySubtask2(Get(arg.pharmagent_results, "result_data", <<>>))) =>
        LET result_data == arg.pharmagent_results.result_data
            N == LegacyTotal(result_data)
        IN /\ ret.err = "none"
           /\ ret.val.accuracy = result_data.accuracy
           /\ ret.val.hallucination_rate = result_data.hallucination_rate
           /\ {"total_tasks", "correct_tasks"} \subseteq DOMAIN ret.val
           /\ ret.val.total_tasks = N
           /\ ret.val.correct_tasks =
                  Round(<<N * result_data.accuracy[1], result_data.accuracy[2]>>)

\* C11, the part that holds: accuracy and hallucination_rate are read directly
C11_RatesReadDirectly ==
    (/\ op = "transform_pharmagent_results"
     /\ LegacySubtask2(Get(arg.pharmagent_results, "result_data", <<>>))) =>
        /\ ret.err = "none"
        /\ ret.val.accuracy = arg.pharmagent_results.result_data.accuracy
        /\ ret.val.hallucination_rate = arg.pharmagent_results.result_data.hallucination_rate

CanonicalSubtasks == {"subtask1", "subtask2"}

\* a record that has a canonical subtask
HasCanonicalSubtask(rec) == "subtask" \in DOMAIN rec /\ rec.subtask \in CanonicalSubtasks

\* C12, the part that holds: calculate_metrics, transform_pharmagent_results and
\* generate_submission of submission.py emit records of subtask1 and subtask2
\* only, and fail on any other subtask.
C12_UnknownSubtaskRejected ==
    /\ op = "calculate_metrics" =>
           IF arg.subtask \in CanonicalSubtasks
           THEN ret.err = "none" /\ ret.val.subtask = arg.subtask
           ELSE ret.err = "ValueError"
    /\ (op = "transform_pharmagent_results" /\ ret.err = "none") =>
           HasCanonicalSubtask(ret.val)
    /\ (op = "generate_submission" /\ ret.err = "none") =>
           \A i \in DOMAIN ret.val.results : HasCanonicalSubtask(ret.val.results[i])

\* C12 (as claimed): on every normalization path, every record emitted has
\* subtask in {subtask1, subtask2}; any other subtask ends in an error.
C12_CanonicalSubtaskEveryPath ==
    /\ C12_UnknownSubtaskRejected
    /\ (op \in {"transform_agentbeats_results", "renormalize"} /\ ret.err = "none") =>
           \A i \in DOMAIN ret.val.results : HasCanonicalSubtask(ret.val.results[i])

\* the records a call emitted
Emitted ==
    IF ret.err # "none" THEN {}
    ELSE IF op \in {"calculate_metrics", "transform_pharmagent_results"} THEN {ret.val}
    ELSE IF op \in {"generate_submission", "generate_leaderboard_submission",
                    "transform_agentbeats_results", "renormalize"}
    THEN {ret.val.results[i] : i \in DOMAIN ret.val.results}
    ELSE {}

\* C13 (as claimed): in every record emitted, each of accuracy,
\* hallucination_rate, precision, recall and f1_score is absent or within
\* [0.0, 1.0], whatever the counts and the reported rates of the input.
C13_RatesInUnitInterval ==
    \A rec \in Emitted :
        \A k \in {"accuracy", "hallucination_rate", "precision", "recall", "f1_score"} :
            k \in DOMAIN rec => RLeq(Zero, rec[k]) /\ RLeq(rec[k], One)

\* a document of one of the known shapes: a subtask and a participant_id, a
\* results array, an artifact with data, or a result_data
Recognized(agentbeats_results) ==
    \/ {"subtask", "participant_id"} \subseteq DOMAIN agentbeats_results
    \/ Get(agentbeats_results, "results", <<>>) # <<>>
    \/ EvaluationResultData(Get(agentbeats_results, "artifacts", <<>>)) # <<>>
    \/ "result_data" \in DOMAIN agentbeats_results

\* the record of a document that transform_agentbeats_results normalizes: the
\* document itself, the first of its results, or the data of an artifact part
RecordOf(agentbeats_results) ==
    LET data == EvaluationResultData(Get(agentbeats_results, "artifacts", <<>>))
    IN IF {"subtask", "participant_id"} \subseteq DOMAIN agentbeats_results
       THEN agentbeats_results
       ELSE IF Get(agentbeats_results, "results", <<>>) # <<>>
       THEN agentbeats_results["results"][1]
       ELSE IF data # <<>> THEN data[1]
       ELSE agentbeats_results

\* the participant_id the claim C14 gives a record: (a) its own, (b) the first
\* value of participants, (c) the one of the scenario, (d) "unknown"; an own
\* participant_id "unknown" may count as given or as missing
ParticipantIdByPriority(record, participants, scenario) ==
    LET own == Get(record, "participant_id", "")
        other == IF participants # <<>> THEN participants[1][2]
                 ELSE get_participant_id_from_scenario(scenario)
    IN IF own = "" THEN {other}
       ELSE IF own = "unknown" THEN {own, other}
       ELSE {own}

\* C14 (as claimed): the participant_id of a normalized record is chosen by the
\* priority own, participants, scenario, "unknown"; it is never empty.
C14_ParticipantIdPriority ==
    /\ (/\ op = "transform_agentbeats_results"
        /\ Recognized(arg.agentbeats_results)
        /\ ret.err = "none") =>
           /\ "participant_id" \in DOMAIN ret.val.results[1]
           /\ ret.val.results[1]["participant_id"] # ""
           /\ ret.val.results[1]["participant_id"] \in
                  ParticipantIdByPriority(
                      RecordOf(arg.agentbeats_results),
                      Get(arg.agentbeats_results, "participants", <<>>),
                      arg.scenario)
    /\ (op = "transform_pharmagent_results" /\ ret.err = "none") =>
           /\ ret.val.participant_id # ""
           /\ ret.val.participant_id \in
                  ParticipantIdByPriority(arg.pharmagent_results, <<>>, arg.scenario)

\* C14, the part that holds: a document that has a subtask and a non-empty
\* participant_id keeps it, whatever participants holds
C14_CanonicalKeepsOwnId ==
    (/\ op = "transform_agentbeats_results"
     /\ {"subtask", "participant_id"} \subseteq DOMAIN arg.agentbeats_results
     /\ arg.agentbeats_results["participant_id"] # "") =>
        /\ ret.err = "none"
        /\ ret.val.results[1]["participant_id"] = arg.agentbeats_results["participant_id"]

\* C15 (as claimed): a document that matches none of the known shapes is
\* returned unchanged: not wrapped as a record, and no field added to it.
C15_UnrecognizedUnchanged ==
    (/\ op = "transform_agentbeats_results"
     /\ ~Recognized(arg.agentbeats_results)
     /\ "results" \notin DOMAIN arg.agentbeats_results) =>
        ret = Ok(arg.agentbeats_results)

\* C16 (as claimed): normalization leaves its argument alone: when
\* transform_agentbeats_results or transform_pharmagent_results returns, the
\* document it was given, nested objects included, is what it was at the call.
C16_ArgumentUnchanged ==
    op \in {"transform_agentbeats_results", "renormalize",
            "transform_pharmagent_results"} =>
        arg_after = arg

-----------------------------------------------------------------------------
(* Claims about the Ranking Engine on partial Result Records *)

\* the number of Result Records of a subtask over all Submissions
RecordsOf(subtask) ==
    Cardinality({<<i, j>> \in (1 .. MaxSubs + 1) \X (1 .. MaxRecords + 1) :
                    /\ i \in DOMAIN submissions
                    /\ j \in DOMAIN submissions[i].results
                    /\ submissions[i].results[j].subtask = subtask})

\* C17 (as claimed): rank_subtask1, rank_subtask2 and get_overall_ranking do not
\* raise on Result Records with missing keys: every record of the subtask is
\* ranked, and every participant is in the overall ranking.
C17_RankingToleratesMissingKeys ==
    /\ op = "rank_subtask1" =>
           ret.err = "none" /\ Len(ret.val) = RecordsOf("subtask1")
    /\ op = "rank_subtask2" =>
           ret.err = "none" /\ Len(ret.val) = RecordsOf("subtask2")
    /\ op = "get_overall_ranking" =>
           /\ ret.err = "none"
           /\ {ret.val[k].participant_id : k \in DOMAIN ret.val}
                  = {MedicalAgent(submissions[i]) : i \in DOMAIN submissions}

-----------------------------------------------------------------------------
(* Claims about the order of the input shapes *)

\* the places <<i, j>> of the parts of kind "data" in the artifacts named
\* "Evaluation Result"; with usable, only those whose data is not empty
DataPartsAt(artifacts, usable) ==
    {at \in UNION {{<<i, j>> : j \in DOMAIN Get(artifacts[i], "parts", <<>>)} :
                      i \in DOMAIN artifacts} :
        /\ Get(artifacts[at[1]], "name", "") = "Evaluation Result"
        /\ Get(artifacts[at[1]]["parts"][at[2]], "kind", "") = "data"
        /\ "data" \in DOMAIN artifacts[at[1]]["parts"][at[2]]
        /\ usable => artifacts[at[1]]["parts"][at[2]]["data"] # <<>>}

\* the data of the first of these parts
FirstData(artifacts, usable) ==
    LET found == DataPartsAt(artifacts, usable)
        first == CHOOSE at \in found :
                     \A other \in found :
                         \/ at[1] < other[1]
                         \/ at[1] = other[1] /\ at[2] <= other[2]
    IN artifacts[first[1]]["parts"][first[2]]["data"]

\* what normalizing the record data gives a document: data gets the first value
\* of participants, if there is one, and goes through transform_pharmagent_results
NormalizedFrom(data, now) ==
    LET participants == Get(arg.agentbeats_results, "participants", <<>>)
        record == IF participants # <<>>
                  THEN ("participant_id" :> participants[1][2]) @@ data ELSE data
        transformed == transform_pharmagent_results(record, arg.scenario, now)
    IN IF transformed.err # "none" THEN transformed
       ELSE Ok([participants |-> participants, results |-> <<transformed.val>>])

\* a document that has subtask and participant_id is passed through: it is the
\* one result, with all its keys and values; only an empty participant_id may
\* be filled in
PassedThrough ==
    {"subtask", "participant_id"} \subseteq DOMAIN arg.agentbeats_results =>
        /\ ret.err = "none"
        /\ Len(ret.val.results) = 1
        /\ DOMAIN ret.val.results[1] = DOMAIN arg.agentbeats_results
        /\ \A k \in DOMAIN arg.agentbeats_results :
               \/ ret.val.results[1][k] = arg.agentbeats_results[k]
               \/ k = "participant_id" /\ arg.agentbeats_results[k] = ""

-----------------------------------------------------------------------------
(* Claims about the legacy subtask1 result_data *)

HasCounts(d) == {"total_tasks", "correct_tasks"} \subseteq DOMAIN d
NoCounts(d) == {"total_tasks", "correct_tasks"} \cap DOMAIN d = {}

\* the counts <<total, correct>> the claim C19 gives a result_data: those of
\* batch_info, else those of result_data, else the count of task_results
LegacyCounts(result_data) ==
    LET batch_info == Get(result_data, "batch_info", <<>>)
        task_results == Get(batch_info, "task_results", <<>>)
    IN IF HasCounts(batch_info)
       THEN <<batch_info.total_tasks, batch_info.correct_tasks>>
       ELSE IF HasCounts(result_data)
       THEN <<result_data.total_tasks, result_data.correct_tasks>>
       ELSE <<Cardinality(DOMAIN task_results),
              Cardinality({t \in DOMAIN task_results :
                              Get(task_results[t], "failure_type", "") = ""})>>

\* the accuracy the claim C19 gives it: score when present and nonzero, else
\* correct / total
LegacyAccuracy(result_data) ==
    LET counts == LegacyCounts(result_data)
    IN IF Get(result_data, "score", Zero) # Zero THEN result_data.score
       ELSE IF counts[1] > 0 THEN Rat(counts[2], counts[1])
       ELSE Zero

\* result_data whose counts are given in full or not at all, with a positive
\* total
PlainCounts(result_data) ==
    LET batch_info == Get(result_data, "batch_info", <<>>)
    IN /\ HasCounts(batch_info) \/ NoCounts(batch_info)
       /\ HasCounts(result_data) \/ NoCounts(result_data)
       /\ HasCounts(batch_info) => batch_info.total_tasks > 0
       /\ HasCounts(result_data) => result_data.total_tasks > 0

\* C19 (as claimed): for a legacy subtask1 result_data the accuracy of the
\* record (its score, when it has no accuracy) is result_data.score when present
\* and nonzero, and otherwise correct / total of the counts of batch_info, else
\* of result_data, else of the count of batch_info.task_results.
C19_LegacySubtask1Accuracy ==
    (/\ op = "transform_pharmagent_results"
     /\ "result_data" \in DOMAIN arg.pharmagent_results
     /\ PlainCounts(arg.pharmagent_results.result_data)
     /\ ret.err = "none"
     /\ ret.val.subtask = "subtask1") =>
        LET accuracy == IF "accuracy" \in DOMAIN ret.val
                        THEN ret.val.accuracy ELSE ret.val.score
        IN accuracy = LegacyAccuracy(arg.pharmagent_results.result_data)

-----------------------------------------------------------------------------
(* Claims about the inference of the subtask *)

\* the subtask given by result_data, else by config; "" when none is given
ExplicitSubtask(pharmagent_results) ==
    LET given == Get(Get(pharmagent_results, "result_data", <<>>), "subtask", "")
    IN IF given # "" THEN given
       ELSE Get(Get(pharmagent_results, "config", <<>>), "subtask", "")

\* the lower-cased task_id of result_data, the empty str when there is none
LowerTaskId(pharmagent_results) ==
    Lower(Get(Get(pharmagent_results, "result_data", <<>>), "task_id", <<>>))

\* C20: when neither result_data nor config gives a subtask, the record's
\* subtask is subtask2 if the lower-cased task_id contains "pokemon" or starts
\* with "subtask2", and subtask1 otherwise (also without task_id); when a
\* subtask is given, the record has that one and the task_id plays no part.
C20_SubtaskInference ==
    op = "transform_pharmagent_results" =>
        LET explicit == ExplicitSubtask(arg.pharmagent_results)
            task_id == LowerTaskId(arg.pharmagent_results)
        IN IF explicit # ""
           THEN ret.err = "none" => ret.val.subtask = explicit
           ELSE /\ ret.err = "none"
                /\ ret.val.subtask =
                       IF \/ Contains(task_id, <<"p", "o", "k", "e", "m", "o", "n">>)
                          \/ StartsWith(task_id, <<"s", "u", "b", "t", "a", "s", "k", "2">>)
                       THEN "subtask2" ELSE "subtask1"

\* C20 witness: a task_id that starts with "task" and contains "pokemon" gives
\* subtask2
C20_Witness ==
    /\ op = "transform_pharmagent_results"
    /\ ExplicitSubtask(arg.pharmagent_results) = ""
    /\ StartsWith(LowerTaskId(arg.pharmagent_results), <<"t", "a", "s", "k">>)
    /\ Contains(LowerTaskId(arg.pharmagent_results), <<"p", "o", "k", "e", "m", "o", "n">>)
    /\ ret.err = "none"
    /\ ret.val.subtask = "subtask2"

-----------------------------------------------------------------------------
(* Claims about the entries of the rankings *)

\* the timestamps of the Result Records of a participant
TimestampsOf(participant_id) ==
    {submissions[at[1]].results[at[2]].timestamp : at \in PlacesOf(participant_id)}

\* C21: in every entry of get_overall_ranking, submissions is the number of
\* Submissions of the participant, those without results included, and
\* latest_timestamp is the greatest, as strings, of the timestamps of the
\* participant's records, the empty string when there is no record.
C21_SubmissionsAndLatest ==
    op = "get_overall_ranking" =>
        /\ ret.err = "none"
        /\ \A k \in DOMAIN ret.val :
              LET e == ret.val[k]
                  stamps == TimestampsOf(e.participant_id)
              IN /\ e.submissions =
                        Cardinality({i \in DOMAIN submissions :
                                        MedicalAgent(submissions[i]) = e.participant_id})
                 /\ stamps = {} => e.latest_timestamp = <<>>
                 /\ stamps # {} =>
                        /\ e.latest_timestamp \in stamps
                        /\ \A t \in stamps : ~StrLess(e.latest_timestamp, t)

\* C21 witness: a participant with two Submissions, the second without results,
\* the first with the timestamps "2" and then "10": submissions 2, latest "2"
C21_Witness ==
    /\ op = "get_overall_ranking"
    /\ Len(submissions) = 2
    /\ MedicalAgent(submissions[1]) = MedicalAgent(submissions[2])
    /\ Len(submissions[1].results) = 2
    /\ submissions[1].results[1].timestamp = T2
    /\ submissions[1].results[2].timestamp = T1
    /\ submissions[2].results = <<>>
    /\ Len(ret.val) = 1
    /\ ret.val[1].submissions = 2
    /\ ret.val[1].latest_timestamp = T2

\* the places <<i, j>> of the Result Records of a subtask
PlacesOfSubtask(subtask) ==
    {<<i, j>> \in (1 .. MaxSubs + 1) \X (1 .. MaxRecords + 1) :
        /\ i \in DOMAIN submissions
        /\ j \in DOMAIN submissions[i].results
        /\ submissions[i].results[j].subtask = subtask}

\* what an entry of a ranking carries of the Result Record at a place
CarriedFrom(at) ==
    [participant_id |-> MedicalAgent(submissions[at[1]]),
     accuracy |-> submissions[at[1]].results[at[2]].accuracy,
     total_tasks |-> submissions[at[1]].results[at[2]].total_tasks,
     timestamp |-> submissions[at[1]].results[at[2]].timestamp]

\* the same of an entry
Carried(entry) ==
    [participant_id |-> entry.participant_id,
     accuracy |-> entry.accuracy,
     total_tasks |-> entry.total_tasks,
     timestamp |-> entry.timestamp]

\* ranking has one entry for each Result Record of the subtask, and no other
OneEntryPerRecord(ranking, subtask) ==
    LET places == PlacesOfSubtask(subtask)
    IN /\ Len(ranking) = Cardinality(places)
       /\ \A k \in DOMAIN ranking :
              \E at \in places : CarriedFrom(at) = Carried(ranking[k])
       /\ \A at \in places :
              Cardinality({k \in DOMAIN ranking : Carried(ranking[k]) = CarriedFrom(at)})
              = Cardinality({other \in places : CarriedFrom(other) = CarriedFrom(at)})

\* C22: the output of rank_subtask1 (rank_subtask2) has exactly one entry for
\* each Result Record of subtask1 (subtask2) over all Submissions, with the
\* record's accuracy and timestamp; with no Submission or no such record it is
\* the empty ranking, without error.
C22_OneEntryPerRecord ==
    /\ op = "rank_subtask1" =>
           ret.err = "none" /\ OneEntryPerRecord(ret.val, "subtask1")
    /\ op = "rank_subtask2" =>
           ret.err = "none" /\ OneEntryPerRecord(ret.val, "subtask2")

\* C22 witness: of a subtask2 record and a subtask1 record in two Submissions,
\* rank_subtask1 ranks the subtask1 record only
C22_Witness ==
    /\ op = "rank_subtask1"
    /\ Len(submissions) = 2
    /\ Len(submissions[1].results) = 1
    /\ Len(submissions[2].results) = 1
    /\ submissions[1].results[1].subtask = "subtask2"
    /\ submissions[2].results[1].subtask = "subtask1"
    /\ submissions[1].results[1].accuracy # submissions[2].results[1].accuracy
    /\ Len(ret.val) = 1
    /\ ret.val[1].accuracy = submissions[2].results[1].accuracy
    /\ ret.val[1].participant_id = MedicalAgent(submissions[2])

\* the lists that hold the Submissions of the Ranking Engine in another order
Reorderings ==
    {[i \in DOMAIN submissions |-> submissions[p[i]]] :
        p \in {q \in [DOMAIN submissions -> DOMAIN submissions] :
                  \A i, j \in DOMAIN submissions : q[i] = q[j] => i = j}}

\* what the entries of each ranking are sorted by
SortKey(entry) ==
    IF "avg_accuracy" \in DOMAIN entry THEN <<entry.avg_accuracy>>
    ELSE IF "hallucination_rate" \in DOMAIN entry
         THEN <<entry.accuracy, entry.hallucination_rate, entry.timestamp>>
    ELSE <<entry.accuracy, entry.timestamp>>

\* two results of a ranking function hold the same entries, each as often, and
\* in the same relative order where the sort keys of two entries differ
SameRanking(r1, r2) ==
    /\ r1.err = "none"
    /\ r2.err = "none"
    /\ Len(r1.val) = Len(r2.val)
    /\ \A k \in DOMAIN r1.val :
           Cardinality({i \in DOMAIN r1.val : r1.val[i] = r1.val[k]})
           = Cardinality({i \in DOMAIN r2.val : r2.val[i] = r1.val[k]})
    /\ \A i, j \in DOMAIN r1.val :
           (i < j /\ SortKey(r1.val[i]) # SortKey(r1.val[j]))
               => ~\E k, l \in DOMAIN r2.val :
                      k < l /\ r2.val[k] = r1.val[j] /\ r2.val[l] = r1.val[i]

\* C23: the rankings do not depend on the order of the Submissions: for every
\* permutation of the list, rank_subtask1, rank_subtask2 and
\* get_overall_ranking return the same entries with the same field values
\* (avg_accuracy, submissions and latest_timestamp too) and the same relative
\* order of every two entries whose sort keys differ. Here with the floats of
\* the build.
C23_OrderIndependent ==
    \A permuted \in Reorderings :
        /\ op = "rank_subtask1" => SameRanking(ret, rank_subtask1(permuted))
        /\ op = "rank_subtask2" => SameRanking(ret, rank_subtask2(permuted))
        /\ op = "get_overall_ranking" =>
               SameRanking(ret, get_overall_ranking_binary64(permuted))

\* the part of C23 that holds: rank_subtask1 and rank_subtask2, which only
\* compare the floats, do not depend on the order of the Submissions
C23_RankSubtaskOrderIndependent ==
    \A permuted \in Reorderings :
        /\ op = "rank_subtask1" => SameRanking(ret, rank_subtask1(permuted))
        /\ op = "rank_subtask2" => SameRanking(ret, rank_subtask2(permuted))

\* and get_overall_ranking does not where no sum rounds: on the rationals
C23_ExactOrderIndependent ==
    \A permuted \in Reorderings :
        /\ op = "rank_subtask1" => SameRanking(ret, rank_subtask1(permuted))
        /\ op = "rank_subtask2" => SameRanking(ret, rank_subtask2(permuted))
        /\ op = "get_overall_ranking" =>
               SameRanking(ret, get_overall_ranking(permuted))

\* the Ranking Engine accepts a Submission: none of its three functions raises
Accepted(submission) ==
    /\ rank_subtask1(<<submission>>).err = "none"
    /\ rank_subtask2(<<submission>>).err = "none"
    /\ get_overall_ranking(<<submission>>).err = "none"

\* C24: every Submission a producer emits (create_leaderboard_submission,
\* generate_submission of generate_leaderboard_submission.py,
\* transform_agentbeats_results) is accepted by the Ranking Engine: it has
\* participants["medical_agent"] and each of its records has the fields the
\* ranking functions read for its subtask, so that rank_subtask1, rank_subtask2
\* and get_overall_ranking complete without error.
C24_EmittedAccepted ==
    (/\ op \in {"generate_submission", "generate_leaderboard_submission",
                "transform_agentbeats_results", "renormalize"}
     /\ ret.err = "none")
        => Accepted(ret.val)

\* the part of C24 that holds: what create_leaderboard_submission emits, for
\* generate_submission of submission.py, is accepted
C24_CreatedAccepted ==
    (op = "generate_submission" /\ ret.err = "none") => Accepted(ret.val)

\* and what generate_submission of generate_leaderboard_submission.py emits
\* for the framework agentify-medagentbench
C24_AgentifyAccepted ==
    (/\ op = "generate_leaderboard_submission"
     /\ arg.framework = "agentify-medagentbench"
     /\ ret.err = "none")
        => Accepted(ret.val)

====
